---- MODULE Spec2Model ----
(***************************************************************************)
(* The transition engine of the PWM LED light platform                     *)
(* (custom_components/ha-rpi_gpio_pwm/light.py): PwmSimpleLed, Transition, *)
(* and the TransitionManager with its worker thread.                       *)
(*                                                                         *)
(* Threads are modelled at the granularity of the statements that read or  *)
(* write shared state.  Caller threads run PwmSimpleLed.turn_on/turn_off   *)
(* and Transition.cancel; worker threads run                               *)
(* TransitionManager._transition_loop.                                     *)
(*                                                                         *)
(* Numbers.  A Home Assistant brightness b (0..255) becomes the level      *)
(* b/255.  Levels are held as integers in units of 1/(255*Den), progress   *)
(* as an integer in units of 1/Den, where Den is a common multiple of all  *)
(* positive durations, so that run_time/duration is exact.  The clock      *)
(* (time.perf_counter) is an integer that only moves forward.              *)
(***************************************************************************)
EXTENDS Integers, Sequences, FiniteSets, TLC

\* ------------------------------------------------------------------ bounds
MaxTransitions == 2
MaxDuration == 1
MaxClock == 1
MaxBrightness == 1
NumLeds == 1
NumCallers == 2
\* A Transition object used on its own: its arguments and the clock.
MaxStepDuration == 3
MaxStepLevel == 2
MaxStepClock == 4
NumThreads == 3        \* threads that call TransitionManager() for the first time

\* ------------------------------------------------------- program constants
DEFAULT_BRIGHTNESS == 255

Leds == 1..NumLeds
Callers == 1..NumCallers
TIds == 1..MaxTransitions
Threads == 1..NumThreads
\* execute() starts at most one thread per call, so there are never more
\* thread objects than transitions.
Workers == 1..MaxTransitions
\* The transition argument of turn_on/turn_off; Home Assistant's service schema
\* clamps it to non-negative numbers before the entity is called.
Durations == 0..MaxDuration
\* The brightness argument of turn_on with a transition, in Home Assistant units.
Brightnesses == 1..MaxBrightness
\* The arguments of a Transition constructed directly: the constructor accepts
\* any duration, negative ones included.
StepDurations == {0 - 1} \cup (0..MaxStepDuration)
StepLevels == 0..MaxStepLevel

RECURSIVE Product(_)
Product(n) == IF n <= 1 THEN 1 ELSE n * Product(n - 1)
\* Denominator of the fixed-point representation of progress: a multiple of
\* every positive duration.
Max(a, b) == IF a >= b THEN a ELSE b
Min(a, b) == IF a <= b THEN a ELSE b
Den == Product(Max(MaxDuration, MaxStepDuration))
\* n / d for d # 0, rounded towards minus infinity.
Quot(n, d) == IF d > 0 THEN n \div d ELSE (0 - n) \div (0 - d)

VARIABLES
    now,          \* time.perf_counter()
    leds,         \* PwmSimpleLed objects: _brightness, _led.value, _is_on, _active_transition
    tr,           \* the Transition objects created so far, by id
    transitions,  \* TransitionManager._transitions: list of transition ids
    thread,       \* TransitionManager._thread: a worker id, 0 for None
    wpc,          \* per thread object: position of the worker
    widx,         \* per worker: index of the list iterator of the for loop
    wcur,         \* per worker: the loop variable `transition`, 0 for unset
    wsnap,        \* per worker: the collection as it was when the current tick started
    wstepped,     \* per worker: the transitions step() was called on in the current tick
    wexc,         \* per worker: the exception that ended the thread, "" for none
    wtick,        \* per worker: what held when the current tick started (see TickStart)
    cpc,          \* per caller thread: position
    cled,         \* per caller thread: the LED of the call in progress
    con,          \* per caller thread: the value turn_on/turn_off will store in _is_on
    obs,          \* what the last call made on a Transition driven directly did (see NoObs)
    instances,    \* SingletonMeta._instances[TransitionManager]: a manager id, 0 for absent
    mgrs,         \* the number of TransitionManager objects constructed so far
    spc,          \* per thread inside SingletonMeta.__call__: position
    smine,        \* per thread: the local `instance` of __call__, 0 for unset
    sgot          \* per thread: the manager its TransitionManager() returned, 0 for none yet

vars == <<now, leds, tr, transitions, thread, wpc, widx, wcur, wsnap, wstepped, wexc,
          wtick, cpc, cled, con, obs, instances, mgrs, spc, smine, sgot>>
workerVars == <<wpc, widx, wcur, wsnap, wstepped, wexc, wtick>>
callerVars == <<cpc, cled, con>>
singletonVars == <<instances, mgrs, spc, smine, sgot>>
\* The platform takes its manager as given - one collection, one worker
\* reference - and drives no Transition by hand: its actions leave these alone.
apartVars == <<obs, singletonVars>>

\* --------------------------------------------------------------- conversions
\* _from_hass_brightness: brightness / 255, in units of 1/(255*Den).
FromHass(b) == b * Den

\* ------------------------------------------------------------- PwmSimpleLed
\* PwmSimpleLed.__init__
\* (last_call is not a field of the object: it is the service call that
\* returned last on the entity, "" for none)
NewLed == [brightness |-> FromHass(DEFAULT_BRIGHTNESS), value |-> 0, is_on |-> FALSE,
           active_transition |-> 0, last_call |-> ""]

\* PwmSimpleLed.set_brightness
SetBrightness(L, l, v) ==
    [L EXCEPT ![l].brightness = v, ![l].value = v, ![l].is_on = (v # 0)]

\* ---------------------------------------------------------------- Transition
\* Transition.__init__ (the fields; the constructor's write is in the callers)
NewTransition(l, d, from, to, clock) ==
    [led |-> l, duration |-> d, from_brightness |-> from, to_brightness |-> to,
     start_time |-> clock, cancelled |-> FALSE, finished |-> FALSE,
     final_writes |-> 0]

\* Variants of the operators below, each with one line of the code changed;
\* the properties that rest on that line fail under them.
\* progress without `if self.duration == 0: return 1`, reading 0 there
ProgressZeroDurationStarts(r, clock) ==
    IF r.duration = 0 THEN 0
    ELSE Max(0, Min(Den, Quot((clock - r.start_time) * Den, r.duration)))

\* progress without the clamp max(0, min(1, ...))
ProgressUnclamped(r, clock) ==
    IF r.duration = 0 THEN Den
    ELSE Quot((clock - r.start_time) * Den, r.duration)

\* Transition.progress, in units of 1/Den
Progress(r, clock) ==
    IF r.duration = 0 THEN Den
    ELSE Max(0, Min(Den, Quot((clock - r.start_time) * Den, r.duration)))

\* _interpolate adding progress * end instead of progress * (end - start)
InterpolateWithoutDiff(r, clock) ==
    r.from_brightness + Quot(Progress(r, clock) * r.to_brightness, Den)

\* Transition._interpolate
Interpolate(r, clock) ==
    r.from_brightness
        + Quot(Progress(r, clock) * (r.to_brightness - r.from_brightness), Den)

\* Transition.step: which way a call goes - the early return, _finish(), or
\* the interpolated write (both endpoints are numbers here, never None)
StepPath(r, clock) ==
    IF r.cancelled \/ r.finished THEN "return"
    ELSE IF Progress(r, clock) = Den THEN "finish"
    ELSE "write"

\* transition.py, Transition.step: which way a call goes
TwinStepPath(r, clock) ==
    IF r.cancelled \/ r.finished THEN "return"
    ELSE IF Progress(r, clock) = Den THEN "finish"
    ELSE "write"

\* transition.py, Transition.step: src_brightness when the write is reached
\* (src_is_on is `from == 0`, and `src_is_on is False` zeroes the source)
TwinSrc(r) == IF (r.from_brightness = 0) = FALSE THEN 0 ELSE r.from_brightness

\* transition.py, Transition.step: dest_brightness when the write is reached
TwinDest(r) == IF (r.to_brightness = 0) = FALSE THEN 0 ELSE r.to_brightness

\* transition.py, Transition._interpolate on the endpoints step() passes it
TwinInterpolate(r, clock) ==
    TwinSrc(r) + Quot(Progress(r, clock) * (TwinDest(r) - TwinSrc(r)), Den)

\* transition.py, Transition.step: the values the call writes to the
\* actuator, with step() reading the clock at `clock` and _interpolate at
\* `clock2`
TwinWrites(r, clock, clock2) ==
    IF TwinStepPath(r, clock) = "finish" THEN <<r.to_brightness>>
    ELSE IF TwinStepPath(r, clock) = "write" THEN <<TwinInterpolate(r, clock2)>>
    ELSE <<>>

\* Transition.cancel
CancelTr(T, t) == [T EXCEPT ![t].cancelled = TRUE, ![t].finished = TRUE]

\* PwmSimpleLed._cancel_active_transition: the transitions after the call
CancelActive(T, l) ==
    IF leds[l].active_transition # 0 THEN CancelTr(T, leds[l].active_transition) ELSE T

\* PwmSimpleLed._cancel_active_transition: the LEDs after the call
ClearActive(L, l) ==
    IF L[l].active_transition # 0 THEN [L EXCEPT ![l].active_transition = 0] ELSE L

\* ------------------------------------------------------------ thread states
\* Positions of a worker inside _transition_loop.
LoopPcs == {"while", "step", "write", "finish", "set", "sleep"}
\* threading.Thread.is_alive(): started and not yet terminated.  A worker that
\* has left the loop is still alive until the thread's bootstrap has finished.
IsAlive(w) == wpc[w] \in LoopPcs \cup {"exiting"}
\* A thread object not yet created.
FreeWorkers == {w \in Workers : wpc[w] = "none"}
NextWorker == CHOOSE w \in FreeWorkers : \A v \in FreeWorkers : w <= v

\* list.remove(x): the list without the first occurrence of x
RECURSIVE RemoveFirst(_, _)
RemoveFirst(s, x) ==
    IF s = <<>> THEN <<>>
    ELSE IF Head(s) = x THEN Tail(s)
    ELSE <<Head(s)>> \o RemoveFirst(Tail(s), x)

\* The start of a tick, for the transitions then in the collection: those
\* whose completion signal is set (done) and those that are running with
\* their duration elapsed (due).
NoTick == [done |-> {}, due |-> {}]
TickStart ==
    [done |-> {transitions[i] : i \in {j \in 1..Len(transitions) : tr[transitions[j]].finished}},
     due |-> {transitions[i] : i \in {j \in 1..Len(transitions) :
                  StepPath(tr[transitions[j]], now) = "finish"}}]

\* No call has been made yet on the Transition that is driven directly.
\* call: "step" or "cancel"; at: the clock the call read last; path: the way step()
\* went; wrote: the values the actuator received from the call; twin: the
\* values the actuator of the same Transition built from transition.py
\* receives from the same call.
NoObs == [call |-> "", at |-> 0, path |-> "", wrote |-> <<>>, twin |-> <<>>]

\* SingletonMeta._instances = {} and no thread inside SingletonMeta.__call__
NoManager ==
    /\ instances = 0
    /\ mgrs = 0
    /\ spc = [c \in Threads |-> "idle"]
    /\ smine = [c \in Threads |-> 0]
    /\ sgot = [c \in Threads |-> 0]

InList(s, x) == \E i \in 1..Len(s) : s[i] = x
Count(s, x) == Cardinality({i \in 1..Len(s) : s[i] = x})

\* --------------------------------------------------------------------- Init
Init ==
    /\ now = 0
    /\ leds = [l \in Leds |-> NewLed]
    /\ tr = <<>>
    /\ transitions = <<>>
    /\ thread = 0
    /\ wpc = [w \in Workers |-> "none"]
    /\ widx = [w \in Workers |-> 0]
    /\ wcur = [w \in Workers |-> 0]
    /\ wsnap = [w \in Workers |-> <<>>]
    /\ wstepped = [w \in Workers |-> <<>>]
    /\ wexc = [w \in Workers |-> ""]
    /\ wtick = [w \in Workers |-> NoTick]
    /\ cpc = [c \in Callers |-> "idle"]
    /\ cled = [c \in Callers |-> 0]
    /\ con = [c \in Callers |-> FALSE]
    /\ obs = NoObs
    /\ NoManager

\* -------------------------------------------------------------------- clock
Advance(limit) ==
    /\ now < limit
    /\ now' = now + 1
    /\ UNCHANGED <<apartVars, leds, tr, transitions, thread, workerVars, callerVars>>

Tick == Advance(MaxClock)

\* ------------------------------------------------------------------ callers
\* A new transition can be created: an id is left, and the clock can still
\* reach the end of its duration.
CanCreate(d) == Len(tr) < MaxTransitions /\ now + Max(d, 0) <= MaxClock

\* PwmSimpleLed._transition up to and including the append of execute():
\* cancel the active transition, construct the Transition (which applies
\* from_brightness to the LED), append it to the manager's list.
StartTransition(c, l, d, from, to, on) ==
    LET T1 == CancelActive(tr, l)
        L1 == ClearActive(leds, l)
        id == Len(tr) + 1
    IN  /\ tr' = Append(T1, NewTransition(l, d, from, to, now))
        /\ leds' = SetBrightness(L1, l, from)
        /\ transitions' = Append(transitions, id)
        /\ cpc' = [cpc EXCEPT ![c] = "check"]
        /\ cled' = [cled EXCEPT ![c] = l]
        /\ con' = [con EXCEPT ![c] = on]
        /\ UNCHANGED <<apartVars, now, thread, workerVars>>

\* turn_on(brightness=b, transition=d)
TurnOnTransition(c, l, b, d) ==
    /\ cpc[c] = "idle"
    /\ CanCreate(d)
    /\ StartTransition(c, l, d, 0, FromHass(b), TRUE)

\* turn_off(transition=d)
TurnOffTransition(c, l, d) ==
    /\ cpc[c] = "idle"
    /\ CanCreate(d)
    /\ StartTransition(c, l, d, leds[l].brightness, 0, FALSE)

\* turn_on(brightness=b)
TurnOnBrightness(c, l, b) ==
    /\ cpc[c] = "idle"
    /\ tr' = CancelActive(tr, l)
    /\ leds' = [SetBrightness(ClearActive(leds, l), l, FromHass(b))
                   EXCEPT ![l].is_on = TRUE, ![l].last_call = "turn_on"]
    /\ UNCHANGED <<apartVars, now, transitions, thread, workerVars, callerVars>>

\* turn_on() without brightness
TurnOnPlain(c, l) ==
    /\ cpc[c] = "idle"
    /\ tr' = CancelActive(tr, l)
    /\ leds' = [ClearActive(leds, l) EXCEPT ![l].is_on = TRUE, ![l].last_call = "turn_on"]
    /\ UNCHANGED <<apartVars, now, transitions, thread, workerVars, callerVars>>

\* turn_off() without transition
TurnOffPlain(c, l) ==
    /\ cpc[c] = "idle"
    /\ tr' = CancelActive(tr, l)
    /\ leds' = LET L1 == ClearActive(leds, l)
               IN  [L1 EXCEPT ![l].value = IF L1[l].is_on THEN 0 ELSE @,
                              ![l].is_on = FALSE,
                              ![l].last_call = "turn_off"]
    /\ UNCHANGED <<apartVars, now, transitions, thread, workerVars, callerVars>>

\* execute(): `if self._thread is None or not self._thread.is_alive()`
ExecCheck(c) ==
    /\ cpc[c] = "check"
    /\ cpc' = [cpc EXCEPT ![c] = IF thread = 0 \/ ~IsAlive(thread) THEN "new" ELSE "ret"]
    /\ UNCHANGED <<apartVars, now, leds, tr, transitions, thread, workerVars, cled, con>>

\* execute(): `self._thread = threading.Thread(...)`
ExecNew(c) ==
    /\ cpc[c] = "new"
    /\ thread' = NextWorker
    /\ wpc' = [wpc EXCEPT ![NextWorker] = "created"]
    /\ cpc' = [cpc EXCEPT ![c] = "start"]
    /\ UNCHANGED <<apartVars, now, leds, tr, transitions, widx, wcur, wsnap, wstepped, wexc, wtick,
                   cled, con>>

\* execute(): `self._thread.start()`.  The attribute is read again; starting a
\* thread a second time raises RuntimeError, which ends the caller's call.
ExecStart(c) ==
    /\ cpc[c] = "start"
    /\ IF wpc[thread] = "created"
       THEN /\ wpc' = [wpc EXCEPT ![thread] = "while"]
            /\ cpc' = [cpc EXCEPT ![c] = "ret"]
            /\ UNCHANGED <<cled, con>>
       ELSE /\ wpc' = wpc
            /\ cpc' = [cpc EXCEPT ![c] = "idle"]
            /\ cled' = [cled EXCEPT ![c] = 0]
            /\ con' = [con EXCEPT ![c] = FALSE]
    /\ UNCHANGED <<apartVars, now, leds, tr, transitions, thread, widx, wcur, wsnap, wstepped, wexc,
                   wtick>>

\* turn_on/turn_off after _transition() has returned: `self._is_on = ...`
CallerRet(c) ==
    /\ cpc[c] = "ret"
    /\ leds' = [leds EXCEPT ![cled[c]].is_on = con[c],
                            ![cled[c]].last_call =
                                IF con[c] THEN "turn_on" ELSE "turn_off_transition"]
    /\ cpc' = [cpc EXCEPT ![c] = "idle"]
    /\ cled' = [cled EXCEPT ![c] = 0]
    /\ con' = [con EXCEPT ![c] = FALSE]
    /\ UNCHANGED <<apartVars, now, tr, transitions, thread, workerVars>>

\* handle.cancel() by the holder of a transition
Cancel(c, t) ==
    /\ cpc[c] = "idle"
    /\ t <= Len(tr)
    /\ tr' = CancelTr(tr, t)
    /\ UNCHANGED <<apartVars, now, leds, transitions, thread, workerVars, callerVars>>

\* ------------------------------------------------------------------- worker
\* A worker step runs from one access to shared state that another thread
\* can influence to the next: the test of the while loop, the early-return
\* test of step(), the actuator write, the setting of the completion signal.

\* The for loop after step() has returned, up to the next call of step():
\* `if transition.finished: self._transitions.remove(transition)`, then the
\* list iterator's next().  list.remove raises ValueError when the element is
\* not in the list; the exception ends the thread.  The iterator holds an
\* index into the list, not a copy of it.  T is the transitions as step()
\* left them.
AfterStep(w, T) ==
    LET t == wcur[w]
        gone == T[t].finished
        raised == gone /\ ~InList(transitions, t)
        list == IF gone THEN RemoveFirst(transitions, t) ELSE transitions
        more == widx[w] < Len(list)
    IN  /\ transitions' = list
        /\ wexc' = [wexc EXCEPT ![w] = IF raised THEN "ValueError" ELSE @]
        /\ wpc' = [wpc EXCEPT ![w] = IF raised THEN "dead" ELSE IF more THEN "step" ELSE "sleep"]
        /\ wcur' = [wcur EXCEPT ![w] = IF ~raised /\ more THEN list[widx[w] + 1] ELSE @]
        /\ widx' = [widx EXCEPT ![w] = IF ~raised /\ more THEN @ + 1 ELSE @]

\* `while self._transitions:` and, when it is non-empty, the first next() of
\* `for transition in self._transitions:`
WorkerWhile(w) ==
    /\ wpc[w] = "while"
    /\ IF transitions = <<>>
       THEN /\ wpc' = [wpc EXCEPT ![w] = "exiting"]
            /\ UNCHANGED <<widx, wcur, wsnap, wstepped, wtick>>
       ELSE /\ wpc' = [wpc EXCEPT ![w] = "step"]
            /\ wtick' = [wtick EXCEPT ![w] = TickStart]
            /\ widx' = [widx EXCEPT ![w] = 1]
            /\ wcur' = [wcur EXCEPT ![w] = transitions[1]]
            /\ wsnap' = [wsnap EXCEPT ![w] = transitions]
            /\ wstepped' = [wstepped EXCEPT ![w] = <<>>]
    /\ UNCHANGED <<apartVars, now, leds, tr, transitions, thread, wexc, callerVars>>

\* Transition.step up to its write: the early return, the progress test
WorkerStep(w) ==
    /\ wpc[w] = "step"
    /\ wstepped' = [wstepped EXCEPT ![w] = Append(@, wcur[w])]
    /\ IF StepPath(tr[wcur[w]], now) = "return"
       THEN AfterStep(w, tr)
       ELSE /\ wpc' = [wpc EXCEPT ![w] = StepPath(tr[wcur[w]], now)]
            /\ UNCHANGED <<transitions, wexc, wcur, widx>>
    /\ UNCHANGED <<apartVars, now, leds, tr, thread, wsnap, wtick, callerVars>>

\* Transition.step: `self._led.set_brightness(self._interpolate(...))`; an
\* exception raised by the write ends the thread.
WorkerWrite(w, fails) ==
    /\ wpc[w] = "write"
    /\ IF fails
       THEN /\ wpc' = [wpc EXCEPT ![w] = "dead"]
            /\ wexc' = [wexc EXCEPT ![w] = "ActuatorWriteFailure"]
            /\ UNCHANGED <<leds, transitions, wcur, widx>>
       ELSE /\ leds' = SetBrightness(leds, tr[wcur[w]].led, Interpolate(tr[wcur[w]], now))
            /\ AfterStep(w, tr)
    /\ UNCHANGED <<apartVars, now, tr, thread, wsnap, wstepped, wtick, callerVars>>

\* Transition._finish: `self._led.set_brightness(state)`
WorkerFinish(w, fails) ==
    /\ wpc[w] = "finish"
    /\ IF fails
       THEN /\ wpc' = [wpc EXCEPT ![w] = "dead"]
            /\ wexc' = [wexc EXCEPT ![w] = "ActuatorWriteFailure"]
            /\ UNCHANGED <<leds, tr>>
       ELSE /\ wpc' = [wpc EXCEPT ![w] = "set"]
            /\ wexc' = wexc
            /\ leds' = SetBrightness(leds, tr[wcur[w]].led, tr[wcur[w]].to_brightness)
            /\ tr' = [tr EXCEPT ![wcur[w]].final_writes = Min(@ + 1, 2)]
    /\ UNCHANGED <<apartVars, now, transitions, thread, widx, wcur, wsnap, wstepped, wtick, callerVars>>

\* Transition._finish: `self._finish_event.set()`
WorkerSet(w) ==
    /\ wpc[w] = "set"
    /\ tr' = [tr EXCEPT ![wcur[w]].finished = TRUE]
    /\ AfterStep(w, tr')
    /\ UNCHANGED <<apartVars, now, leds, thread, wsnap, wstepped, wtick, callerVars>>

\* `time.sleep(self.STEP_TIME)`
WorkerSleep(w) ==
    /\ wpc[w] = "sleep"
    /\ wpc' = [wpc EXCEPT ![w] = "while"]
    /\ widx' = [widx EXCEPT ![w] = 0]
    /\ wcur' = [wcur EXCEPT ![w] = 0]
    /\ wsnap' = [wsnap EXCEPT ![w] = <<>>]
    /\ wstepped' = [wstepped EXCEPT ![w] = <<>>]
    /\ wtick' = [wtick EXCEPT ![w] = NoTick]
    /\ UNCHANGED <<apartVars, now, leds, tr, transitions, thread, wexc, callerVars>>

\* _transition_loop has returned; the thread terminates
WorkerExit(w) ==
    /\ wpc[w] = "exiting"
    /\ wpc' = [wpc EXCEPT ![w] = "dead"]
    /\ UNCHANGED <<apartVars, now, leds, tr, transitions, thread, widx, wcur, wsnap, wstepped, wexc,
                   wtick, callerVars>>

\* One statement of a worker thread in which no actuator write fails.
WorkerRun(w) ==
    \/ WorkerWhile(w)
    \/ WorkerStep(w)
    \/ WorkerWrite(w, FALSE)
    \/ WorkerFinish(w, FALSE)
    \/ WorkerSet(w)
    \/ WorkerSleep(w)
    \/ WorkerExit(w)

\* One statement of execute() or of the rest of turn_on/turn_off after it.
CallerRun(c) ==
    \/ ExecCheck(c)
    \/ ExecNew(c)
    \/ ExecStart(c)
    \/ CallerRet(c)

\* The platform: turn_on/turn_off with a transition from concurrent callers,
\* cancel() by the holder of a handle, the workers, actuator writes that may fail.
Next ==
    \/ Tick
    \/ \E c \in Callers, l \in Leds, b \in Brightnesses, d \in Durations :
          TurnOnTransition(c, l, b, d)
    \/ \E c \in Callers, l \in Leds, d \in Durations : TurnOffTransition(c, l, d)
    \/ \E c \in Callers, t \in TIds : Cancel(c, t)
    \/ \E c \in Callers : CallerRun(c)
    \/ \E w \in Workers : WorkerRun(w)
    \/ \E w \in Workers : WorkerWrite(w, TRUE)
    \/ \E w \in Workers : WorkerFinish(w, TRUE)

Spec == Init /\ [][Next]_vars

\* The platform without cancel() and without actuator failures, every thread
\* scheduled fairly and the clock advancing.
FairNext ==
    \/ Tick
    \/ \E c \in Callers, l \in Leds, b \in Brightnesses, d \in Durations :
          TurnOnTransition(c, l, b, d)
    \/ \E c \in Callers, l \in Leds, d \in Durations : TurnOffTransition(c, l, d)
    \/ \E c \in Callers : CallerRun(c)
    \/ \E w \in Workers : WorkerRun(w)

Fairness ==
    /\ WF_vars(Tick)
    /\ \A c \in Callers : WF_vars(CallerRun(c))
    /\ \A w \in Workers : WF_vars(WorkerRun(w))

FairSpec == Init /\ [][FairNext]_vars /\ Fairness

\* ------------------------------------------- the light entity, one caller
\* Home Assistant calling one entity's services one after the other: every
\* form of turn_on and turn_off, the worker carrying out the transitions.
LedNext ==
    \/ Tick
    \/ \E l \in Leds, b \in Brightnesses, d \in Durations : TurnOnTransition(1, l, b, d)
    \/ \E l \in Leds, d \in Durations : TurnOffTransition(1, l, d)
    \/ \E l \in Leds, b \in 0..MaxBrightness : TurnOnBrightness(1, l, b)
    \/ \E l \in Leds : TurnOnPlain(1, l)
    \/ \E l \in Leds : TurnOffPlain(1, l)
    \/ CallerRun(1)
    \/ \E w \in Workers : WorkerRun(w)

LedSpec == Init /\ [][LedNext]_vars

\* ------------------------------------------------- a Transition on its own
\* Transition(led, d, from, to) constructed at time 0 on a fresh LED, then
\* step() and cancel() called one after the other as time passes.
StepInit ==
    /\ now = 0
    /\ \E d \in StepDurations, from \in StepLevels, to \in StepLevels :
          /\ tr = <<NewTransition(1, d, FromHass(from), FromHass(to), 0)>>
          /\ leds = SetBrightness([l \in Leds |-> NewLed], 1, FromHass(from))
    /\ transitions = <<>>
    /\ thread = 0
    /\ wpc = [w \in Workers |-> "none"]
    /\ widx = [w \in Workers |-> 0]
    /\ wcur = [w \in Workers |-> 0]
    /\ wsnap = [w \in Workers |-> <<>>]
    /\ wstepped = [w \in Workers |-> <<>>]
    /\ wexc = [w \in Workers |-> ""]
    /\ wtick = [w \in Workers |-> NoTick]
    /\ cpc = [c \in Callers |-> "idle"]
    /\ cled = [c \in Callers |-> 0]
    /\ con = [c \in Callers |-> FALSE]
    /\ obs = NoObs
    /\ NoManager

StepTick == Advance(MaxStepClock)

\* Transition.step, the whole call. step() reads the clock for its
\* `progress == 1` test and _interpolate reads it again: the second reading
\* is the same or a later one.
StepCall(t) ==
    /\ t <= Len(tr)
    /\ LET r == tr[t]
           path == StepPath(r, now)
       IN  /\ now' \in IF path = "write" THEN {now, Min(now + 1, MaxStepClock)} ELSE {now}
           /\ leds' = IF path = "finish" THEN SetBrightness(leds, r.led, r.to_brightness)
                      ELSE IF path = "write"
                      THEN SetBrightness(leds, r.led, Interpolate(r, now'))
                      ELSE leds
           /\ tr' = IF path = "finish"
                    THEN [tr EXCEPT ![t].finished = TRUE,
                                    ![t].final_writes = Min(@ + 1, 2)]
                    ELSE tr
           /\ obs' = [call |-> "step", at |-> now', path |-> path,
                      wrote |-> IF path = "return" THEN <<>> ELSE <<leds'[r.led].value>>,
                      twin |-> TwinWrites(r, now, now')]
    /\ UNCHANGED <<singletonVars, transitions, thread, workerVars, callerVars>>

\* Transition.cancel, the whole call
CancelCall(t) ==
    /\ t <= Len(tr)
    /\ tr' = CancelTr(tr, t)
    /\ obs' = [call |-> "cancel", at |-> now, path |-> "", wrote |-> <<>>, twin |-> <<>>]
    /\ UNCHANGED <<singletonVars, now, leds, transitions, thread, workerVars, callerVars>>

StepNext ==
    \/ StepTick
    \/ \E t \in TIds : StepCall(t)
    \/ \E t \in TIds : CancelCall(t)

TransitionSpec == StepInit /\ [][StepNext]_vars

\* ------------------------------------------------------------ SingletonMeta
\* Threads calling TransitionManager() for the first time, one bytecode
\* boundary of SingletonMeta.__call__ per action.
platformVars == <<now, leds, tr, transitions, thread, workerVars, callerVars, obs>>

\* `if cls not in cls._instances`
SingletonTest(c) ==
    /\ spc[c] = "idle"
    /\ spc' = [spc EXCEPT ![c] = IF instances = 0 THEN "construct" ELSE "return"]
    /\ UNCHANGED <<platformVars, instances, mgrs, smine, sgot>>

\* `instance = super().__call__(...)`: TransitionManager.__init__ builds a
\* new manager with its own collection and worker reference
SingletonConstruct(c) ==
    /\ spc[c] = "construct"
    /\ mgrs' = mgrs + 1
    /\ smine' = [smine EXCEPT ![c] = mgrs + 1]
    /\ spc' = [spc EXCEPT ![c] = "store"]
    /\ UNCHANGED <<platformVars, instances, sgot>>

\* `cls._instances[cls] = instance`
SingletonStore(c) ==
    /\ spc[c] = "store"
    /\ instances' = smine[c]
    /\ spc' = [spc EXCEPT ![c] = "return"]
    /\ UNCHANGED <<platformVars, mgrs, smine, sgot>>

\* `return cls._instances[cls]`
SingletonReturn(c) ==
    /\ spc[c] = "return"
    /\ sgot' = [sgot EXCEPT ![c] = instances]
    /\ spc' = [spc EXCEPT ![c] = "done"]
    /\ UNCHANGED <<platformVars, instances, mgrs, smine>>

SingletonNext ==
    \/ \E c \in Threads : SingletonTest(c)
    \/ \E c \in Threads : SingletonConstruct(c)
    \/ \E c \in Threads : SingletonStore(c)
    \/ \E c \in Threads : SingletonReturn(c)

SingletonSpec == Init /\ [][SingletonNext]_vars

\* ------------------------------------------------------------------- claims
Created == 1..Len(tr)
Finished(t) == t \in Created /\ tr[t].finished
\* Worker w performs an actuator write in this step.
Writes(w) == wpc[w] \in {"write", "finish"} /\ wpc'[w] # wpc[w] /\ wexc'[w] = wexc[w]
\* The workers inside the step loop.
InLoop == {w \in Workers : wpc[w] \in LoopPcs}

\* C1: no transition writes the actuator after its completion signal has
\* been set, whatever the interleaving of cancel() with the worker's step().
C1_NoWriteAfterSignal ==
    [][\A w \in Workers : Writes(w) => ~tr[wcur[w]].finished]_vars

\* C2: whenever no caller is inside execute() and the active collection is
\* non-empty, a worker is inside the step loop and will run a further pass
\* (stated for runs in which no worker was ended by an exception).
C2_NoStrandedTransition ==
    (/\ transitions # <<>>
     /\ \A c \in Callers : cpc[c] \in {"idle", "ret"}
     /\ \A w \in Workers : wexc[w] = "")
        => InLoop # {}

\* C3: under fair scheduling every submitted transition eventually reaches a
\* terminal state.
C3_EveryTransitionTerminates ==
    \A t \in TIds : (t \in Created) ~> Finished(t)

\* C4: at most one worker thread is executing _transition_loop at any instant.
C4_SingleWorker == Cardinality(InLoop) <= 1

\* C5: at the end of a tick, every transition that was in the active
\* collection when the tick started has had step() called on it exactly once.
C5_EachSteppedOncePerTick ==
    \A w \in Workers : wpc[w] = "sleep" =>
        \A i \in 1..Len(wsnap[w]) : Count(wstepped[w], wsnap[w][i]) = 1

\* C6: the completion write of end_level is issued at most once per transition.
C6_FinalWriteOnce == \A t \in Created : tr[t].final_writes <= 1

\* C7: once a transition is terminal (completion signal set), no step() or
\* cancel() changes its finished or cancelled flag.
C7_TerminalAbsorbing ==
    [][\A t \in Created : tr[t].finished =>
          /\ tr'[t].finished = tr[t].finished
          /\ tr'[t].cancelled = tr[t].cancelled]_vars

\* C8: a worker that met a failing actuator write keeps running, and the
\* failing transition has left the active collection in a terminal state.
C8_WriteFailureIsolated ==
    \A w \in Workers : wexc[w] = "ActuatorWriteFailure" =>
        /\ wpc[w] \in LoopPcs
        /\ ~InList(transitions, wcur[w])
        /\ tr[wcur[w]].finished

\* C9: a transition with a negative duration has progress 1, as one with
\* duration 0.
C9_NegativeDurationInstant ==
    \A t \in Created : tr[t].duration < 0 => Progress(tr[t], now) = Den

\* C10: the active collection never holds two non-terminal transitions of
\* the same LED.
C10_OneRunningPerLed ==
    \A i, j \in 1..Len(transitions) :
        (/\ i # j
         /\ ~tr[transitions[i]].finished
         /\ ~tr[transitions[j]].finished)
            => tr[transitions[i]].led # tr[transitions[j]].led

\* ------------------------------------------------------------------ C11..C20
\* C11: as long as no step() has been called on any transition (no worker
\* thread exists yet), the LED outputs are as PwmSimpleLed.__init__ left
\* them: constructing a Transition, and cancelling one, writes nothing.
C11_NoWriteBeforeFirstStep ==
    (\A w \in Workers : wpc[w] = "none") =>
        \A l \in Leds : leds[l].value = NewLed.value

\* C12: when a worker has ended a tick (it is at the sleep), every
\* transition that was in the active collection, running, with its duration
\* elapsed when the tick started has its completion signal set.
C12_ElapsedCompletedWithinTick ==
    \A w \in Workers : wpc[w] = "sleep" =>
        \A t \in wtick[w].due : tr[t].finished

\* C13: a transition with duration 0 has progress 1 whenever it is read; a
\* step() on it never takes the interpolating path; the step() that finds it
\* running writes end_level, once, and leaves it completed; later step()
\* calls write nothing.
C13_ZeroDurationInstant ==
    \A t \in Created : tr[t].duration = 0 =>
        /\ Progress(tr[t], now) = Den
        /\ tr[t].final_writes <= 1
        /\ obs.call = "step" =>
              /\ obs.path # "write"
              /\ tr[t].finished
              /\ obs.path = "finish" =>
                    /\ obs.wrote = <<tr[t].to_brightness>>
                    /\ tr[t].final_writes = 1
                    /\ leds[tr[t].led].value = tr[t].to_brightness
              /\ obs.path = "return" => obs.wrote = <<>>

\* C13: a running transition with duration 0 and different endpoints has
\* been stepped and the step completed it.
C13_Witness ==
    \E t \in Created :
        /\ tr[t].duration = 0
        /\ tr[t].from_brightness # tr[t].to_brightness
        /\ obs.call = "step"
        /\ obs.path = "finish"
        /\ ~tr[t].cancelled

\* C14: a step() that took the interpolating path wrote one value v, with
\* v = start_level + p * (end_level - start_level) for the progress p that
\* the call read for it, and v lies between start_level and end_level.
C14_InterpolatedWrite ==
    \A t \in Created : (obs.call = "step" /\ obs.path = "write") =>
        /\ Len(obs.wrote) = 1
        /\ obs.wrote[1] * Den =
              tr[t].from_brightness * Den
                + Progress(tr[t], obs.at) * (tr[t].to_brightness - tr[t].from_brightness)
        /\ Min(tr[t].from_brightness, tr[t].to_brightness) <= obs.wrote[1]
        /\ obs.wrote[1] <= Max(tr[t].from_brightness, tr[t].to_brightness)

\* C14: a step() part of the way through a transition with different
\* endpoints wrote a value strictly between them.
C14_Witness ==
    \E t \in Created :
        /\ obs.call = "step"
        /\ obs.path = "write"
        /\ 0 < Progress(tr[t], obs.at)
        /\ Progress(tr[t], obs.at) < Den
        /\ Len(obs.wrote) = 1
        /\ obs.wrote[1] # tr[t].from_brightness
        /\ obs.wrote[1] # tr[t].to_brightness

\* C15: at most one TransitionManager is ever constructed, and any two
\* threads whose TransitionManager() has returned hold the same instance.
C15_SingletonConstructedOnce ==
    /\ mgrs <= 1
    /\ \A c, d \in Threads :
          (spc[c] = "done" /\ spc[d] = "done") => sgot[c] = sgot[d]

\* C16: for a transition with duration > 0, progress() is within [0, 1]
\* before and after every step of the system, it is no smaller after a step
\* than before it (the clock never goes back), and once it is 1 it is 1
\* after every later step.
C16_ProgressBoundedMonotone ==
    [][\A t \in Created : tr[t].duration > 0 =>
          /\ 0 <= Progress(tr[t], now)
          /\ Progress(tr[t], now) <= Den
          /\ 0 <= Progress(tr'[t], now')
          /\ Progress(tr'[t], now') <= Den
          /\ Progress(tr[t], now) <= Progress(tr'[t], now')
          /\ Progress(tr[t], now) = Den => Progress(tr'[t], now') = Den]_vars

\* C16: the clock has gone past the end of a transition with duration > 0
\* and its progress() is 1.
C16_Witness ==
    \E t \in Created :
        /\ tr[t].duration > 0
        /\ now > tr[t].start_time + tr[t].duration
        /\ Progress(tr[t], now) = Den

\* C17: when a worker has ended a tick (it is at the sleep), no transition
\* whose completion signal was already set when the tick started is in the
\* active collection.
C17_ReapedAtTickEnd ==
    \A w \in Workers : wpc[w] = "sleep" =>
        \A t \in wtick[w].done : ~InList(transitions, t)

\* C18: every step() call writes the same values to the actuator whether
\* the Transition is the one of light.py or the one of transition.py.
C18_TwoImplementationsAgree ==
    obs.call = "step" => obs.wrote = obs.twin

\* C19: while turn_off(transition=d) is the call that returned last on an
\* LED and no call is in progress, the LED's is_on is False.
C19_OffStaysOffDuringFade ==
    \A l \in Leds :
        (/\ leds[l].last_call = "turn_off_transition"
         /\ \A c \in Callers : cpc[c] = "idle")
            => ~leds[l].is_on

\* C20: when no call is in progress and every transition created on an LED
\* is terminal, is_on is True exactly when the LED's output level is
\* non-zero.
C20_IsOnMatchesOutput ==
    \A l \in Leds :
        (/\ \A c \in Callers : cpc[c] = "idle"
         /\ \A t \in Created : tr[t].led = l => tr[t].finished)
            => (leds[l].is_on <=> leds[l].value # 0)

====
